---------------------------- MODULE Spec2Model ----------------------------
(***************************************************************************)
(* State-machine model of the three-position hoist controller firmware     *)
(* (src/src/main.c): the supervisor loop of main(), statement by           *)
(* statement, interleaved with the three interrupt handlers                *)
(* TIMER0_OVF (debounce tick), INT0 (Hall pulse) and TIMER1_OVF (block /   *)
(* settle timer).  ATOMIC_BLOCK sections and interrupt handlers are single *)
(* steps (AVR interrupts do not nest).                                     *)
(*                                                                         *)
(* Outputs that nothing reads back (the three LEDs, SPEED_SELECT,          *)
(* currThreshold, blinkCounter, lastTumblerState) are not part of the      *)
(* state.  debounce.h is not among the sources: debounce() and             *)
(* serviceButton() follow sections 4.1 and 4.4 of the specification.       *)
(***************************************************************************)
EXTENDS Integers, FiniteSets, Sequences, TLC

(* ------------------------------ constants ------------------------------ *)
\* #define values of main.c
POS_MID == 0
POS_TOP == 1
POS_BOT == 4
MODE_PROGRAM == 1
MODE_RUN == 2
MODE_MANUAL == 3
BLINK_SLOW == 10
BLINK_FAST == 5
DIRECTION_UP == 1
DIRECTION_DOWN == 2
\* TCCR1B clock-select bits (CS12 = bit 2, CS10 = bit 0)
CS12 == 4
CS12_CS10 == 5
\* the two terminal values of an 8-bit debounce shift register
ALL_ONES == 255
BUF_MOD == 256
\* the seed serviceTumbler leaves in the shift register, and the stateOnPull* initial value
RESEED == 1
UNREAD == 14
\* how far below the middle threshold the settle timer is armed (line 407)
SETTLE_WINDOW == 10

(* -------------------------------- bounds ------------------------------- *)
\* Clicks is kept within -MaxBelow .. MaxClicks by the pulse guard
MaxClicks == 1
MaxBelow == 1

Selectors == {"low", "float", "high"}

VARIABLES
    pc,                 \* position of the supervisor loop
    newMode,            \* local of serviceTumbler / argument of changeMode
    progModeTumbler, programButton, upButton, downButton,   \* switch_t records
    clicks, mode, block, nextPosition, currPosition, blinkRate, lastDirection,
    modePullState, stateOnPullDown, stateOnPullUp,
    middlePositionTimeout, topThreshold, middleThreshold, bottomThreshold,
    tccr1b,             \* TCCR1B: 0 = timer 1 stopped
    upSwitch, downSwitch,   \* PORTD bits UP_SWITCH / DOWN_SWITCH (relay energised)
    eeprom,             \* the two NVRAM words, at offsets 0 and 4
    selector,           \* environment: physical position of the mode selector
    teach,              \* history: progress of a full teach-in (0..3)
    selFrom             \* history: selector position before its single move ("none" before)

vars == <<pc, newMode, progModeTumbler, programButton, upButton, downButton,
          clicks, mode, block, nextPosition, currPosition, blinkRate, lastDirection,
          modePullState, stateOnPullDown, stateOnPullUp,
          middlePositionTimeout, topThreshold, middleThreshold, bottomThreshold,
          tccr1b, upSwitch, downSwitch, eeprom, selector, teach, selFrom>>

switches == <<progModeTumbler, programButton, upButton, downButton>>
tumblerVars == <<modePullState, stateOnPullDown, stateOnPullUp>>
thresholds == <<topThreshold, middleThreshold, bottomThreshold, eeprom>>
position == <<currPosition, nextPosition>>
relays == <<upSwitch, downSwitch>>
timer == <<tccr1b, middlePositionTimeout>>
history == <<teach, selFrom>>

(* ------------------------------ debounce.h ----------------------------- *)
Released == [pinBuffer |-> ALL_ONES, pressed |-> FALSE, lastState |-> FALSE]

\* debounce(), first half: shift the sampled level into the 8-bit register
Shift(buf, level) == (buf * 2 + level) % BUF_MOD

\* debounce(), second half: all zeros = pressed, all ones = released, anything else
\* keeps the stable flag
Stable(sw, b) ==
    [sw EXCEPT !.pinBuffer = b,
               !.pressed = IF b = 0 THEN TRUE
                           ELSE IF b = ALL_ONES THEN FALSE
                           ELSE sw.pressed]

Debounce(sw, level) == Stable(sw, Shift(sw.pinBuffer, level))

\* debounce() at a tick where the pin has read `level` for the switch's last eight
\* samples: the register then holds eight copies of it
DebounceSteady(sw, level) == Stable(sw, IF level = 0 THEN 0 ELSE ALL_ONES)

\* serviceButton(): the edge it dispatches, comparing the stable flag with the last
\* serviced one
ButtonEvent(sw) ==
    IF sw.pressed = sw.lastState THEN "none"
    ELSE IF sw.pressed THEN "press" ELSE "release"

Serviced(sw) == [sw EXCEPT !.lastState = sw.pressed]

(* ---------------------------- pure functions --------------------------- *)
GetNextPosition(c) ==
    IF c = POS_BOT THEN POS_MID
    ELSE IF c = POS_MID THEN POS_TOP
    ELSE POS_BOT

\* UP allowed from every position
CanGoUpAnywhere ==
    \/ mode = MODE_MANUAL
    \/ mode = MODE_PROGRAM
    \/ mode = MODE_RUN

CanGoUp ==
    \/ mode = MODE_MANUAL
    \/ mode = MODE_PROGRAM
    \/ (mode = MODE_RUN /\ (currPosition = POS_MID \/ currPosition = POS_BOT))

CanGoDown ==
    \/ mode = MODE_MANUAL
    \/ mode = MODE_PROGRAM
    \/ (mode = MODE_RUN /\ (currPosition = POS_MID \/ currPosition = POS_TOP))

IsGoingBelowPreviousThreshold ==
    /\ downButton.pressed
    /\ \/ (nextPosition = POS_MID /\ clicks <= bottomThreshold)
       \/ (nextPosition = POS_TOP /\ clicks <= middleThreshold)

\* the decode with the PROGRAM pattern testing the wrong pull-down reading
DecodeModeWrongLow(onUp, onDown) ==
    IF onUp = ALL_ONES /\ onDown = 0 THEN MODE_RUN
    ELSE IF onUp = 0 /\ onDown = ALL_ONES THEN MODE_PROGRAM
    ELSE IF onUp = ALL_ONES /\ onDown = ALL_ONES THEN MODE_MANUAL
    ELSE 0

\* the decode of serviceTumbler (lines 291-297); 0 when no pattern matches
DecodeMode(onUp, onDown) ==
    IF onUp = ALL_ONES /\ onDown = 0 THEN MODE_RUN
    ELSE IF onUp = 0 /\ onDown = 0 THEN MODE_PROGRAM
    ELSE IF onUp = ALL_ONES /\ onDown = ALL_ONES THEN MODE_MANUAL
    ELSE 0

\* level on the MODE_TUMBLER pin: a driven pin reads its rail, a floating one the bias
\* (modePullState = 1: internal pull-up, 0: external pull-down)
TumblerPin(sel, pull) ==
    IF sel = "low" THEN 0
    ELSE IF sel = "high" THEN 1
    ELSE pull

ModeOf(sel) ==
    IF sel = "low" THEN MODE_PROGRAM
    ELSE IF sel = "high" THEN MODE_MANUAL
    ELSE MODE_RUN

\* the clamp that always takes Clicks
MaxTakesFirst(a, b) == a

\* the ?: clamps of lines 247 and 250
Max(a, b) == IF a > b THEN a ELSE b

(* ------------------------------- start-up ------------------------------ *)
\* NVRAM contents found at boot, <<word at offset 0, word at offset 4>>, each word
\* held as the int32_t that (int32_t) eeprom_read_dword gives for it (the casts between
\* int32_t and the stored uint32_t lose nothing): a unit taught earlier
TaughtNvram == { <<0, 1>> }

\* a unit never taught: both NVRAM words erased (all bits set, read back as -1)
ErasedNvram == { <<0 - 1, 0 - 1>> }

\* the state at the first test of while(1), after sei()
InitWith(sels, nvs) ==
    /\ pc = "tumbler_check"
    /\ newMode = 0
    /\ progModeTumbler = Released
    /\ programButton = Released
    /\ upButton = Released
    /\ downButton = Released
    /\ mode = 0
    /\ block = FALSE
    /\ nextPosition = POS_BOT
    /\ currPosition = POS_TOP
    /\ blinkRate = BLINK_SLOW
    /\ lastDirection = 0
    /\ modePullState = 1
    /\ stateOnPullDown = UNREAD
    /\ stateOnPullUp = UNREAD
    /\ middlePositionTimeout = FALSE
    /\ bottomThreshold = 0
    /\ \E nv \in nvs :
          /\ eeprom = nv
          /\ middleThreshold = nv[1]
          /\ topThreshold = nv[2]
          /\ clicks = nv[2]
    /\ tccr1b = 0
    /\ upSwitch = FALSE
    /\ downSwitch = FALSE
    /\ selector \in sels
    /\ teach = 0
    /\ selFrom = "none"

Init == InitWith(Selectors, TaughtNvram)

(* --------------------------- interrupt handlers ------------------------ *)
\* the tick handler sampling DOWN whether or not UP is pressed
TickOnceUngated(s, lv, steady) ==
    LET t == Debounce(s[1], lv[1])
        u == IF ~s[4].pressed THEN Debounce(s[3], lv[3]) ELSE s[3]
        d == Debounce(s[4], lv[4])
        p == IF ~u.pressed /\ ~d.pressed THEN Debounce(s[2], lv[2]) ELSE s[2]
    IN  <<t, p, u, d>>

\* ISR(TIMER0_OVF_vect) on the four switch records s = <<tumbler, program, up, down>>
\* with sampled pin levels lv (same order); steady: every sampled pin has held its
\* level for eight samples
TickOnce(s, lv, steady) ==
    LET D(sw, l) == IF steady THEN DebounceSteady(sw, l) ELSE Debounce(sw, l)
        t == D(s[1], lv[1])
        u == IF ~s[4].pressed THEN D(s[3], lv[3]) ELSE s[3]
        d == IF ~u.pressed THEN D(s[4], lv[4]) ELSE s[4]
        p == IF ~u.pressed /\ ~d.pressed THEN D(s[2], lv[2]) ELSE s[2]
    IN  <<t, p, u, d>>

\* one tick interrupt with the button pins at levels lu, ld, lp
Tick(steady, lu, ld, lp) ==
    LET lv == <<TumblerPin(selector, modePullState), lp, lu, ld>>
        s == TickOnce(switches, lv, steady)
    IN  /\ progModeTumbler' = s[1]
        /\ programButton' = s[2]
        /\ upButton' = s[3]
        /\ downButton' = s[4]
        /\ UNCHANGED <<pc, newMode, clicks, mode, block, position, blinkRate,
                       lastDirection, tumblerVars, timer, thresholds, relays,
                       selector, history>>

\* a tick that finds the sampled pins steady
TickISR == \E lu, ld, lp \in {0, 1} : Tick(TRUE, lu, ld, lp)

\* a tick with all three buttons up
TickIdle == Tick(FALSE, 1, 1, 1)

\* the pulse handler counting up whenever the direction is not DOWN
PulseISRCountsIdle ==
    /\ clicks < MaxClicks
    /\ clicks' = IF lastDirection = DIRECTION_DOWN THEN clicks ELSE clicks + 1
    /\ UNCHANGED <<pc, newMode, switches, mode, block, position, blinkRate,
                   lastDirection, tumblerVars, timer, thresholds, relays,
                   selector, history>>

\* a tick with the raw UP and DOWN pins at any levels, PROGRAM up
TickButtons == \E lu, ld \in {0, 1} : Tick(FALSE, lu, ld, 1)

\* ISR(INT0_vect)
PulseISR ==
    /\ lastDirection = DIRECTION_UP => clicks < MaxClicks
    /\ lastDirection = DIRECTION_DOWN => clicks > 0 - MaxBelow
    /\ clicks' = IF lastDirection = DIRECTION_UP THEN clicks + 1
                 ELSE IF lastDirection = DIRECTION_DOWN THEN clicks - 1
                 ELSE clicks
    /\ UNCHANGED <<pc, newMode, switches, mode, block, position, blinkRate,
                   lastDirection, tumblerVars, timer, thresholds, relays,
                   selector, history>>

\* ISR(TIMER1_OVF_vect): the overflow can only come while the timer is clocked
TimerISR ==
    /\ tccr1b # 0
    /\ block' = FALSE
    /\ middlePositionTimeout' = FALSE
    /\ IF middlePositionTimeout
         THEN /\ currPosition' = nextPosition
              /\ nextPosition' = GetNextPosition(nextPosition)
         ELSE UNCHANGED position
    /\ tccr1b' = 0
    /\ UNCHANGED <<pc, newMode, switches, clicks, mode, blinkRate, lastDirection,
                   tumblerVars, thresholds, relays, selector, history>>

(* ----------------------------- serviceTumbler -------------------------- *)
\* line 280: is the tumbler's shift register at a terminal value?
TumblerCheck ==
    /\ pc = "tumbler_check"
    /\ pc' = IF progModeTumbler.pinBuffer \in {0, ALL_ONES}
               THEN "tumbler_sample" ELSE "prog"
    /\ UNCHANGED <<newMode, switches, clicks, mode, block, position, blinkRate,
                   lastDirection, tumblerVars, timer, thresholds, relays,
                   selector, history>>

\* lines 281-289: record the register under the active bias, reseed it, flip the bias
\* (modePullUp / modePullDown)
TumblerSample ==
    /\ pc = "tumbler_sample"
    /\ IF modePullState = 0
         THEN /\ stateOnPullDown' = progModeTumbler.pinBuffer
              /\ modePullState' = 1
              /\ UNCHANGED stateOnPullUp
         ELSE /\ stateOnPullUp' = progModeTumbler.pinBuffer
              /\ modePullState' = 0
              /\ UNCHANGED stateOnPullDown
    /\ progModeTumbler' = [progModeTumbler EXCEPT !.pinBuffer = RESEED]
    /\ pc' = "tumbler_decode"
    /\ UNCHANGED <<newMode, programButton, upButton, downButton, clicks, mode, block,
                   position, blinkRate, lastDirection, timer, thresholds, relays,
                   selector, history>>

\* lines 291-299 and 259-260: decode; on a difference enter changeMode, whose first
\* act is stopMiddlePositionTimeout
TumblerDecode ==
    /\ pc = "tumbler_decode"
    /\ LET m == DecodeMode(stateOnPullUp, stateOnPullDown)
       IN  IF mode # m
             THEN /\ newMode' = m
                  /\ tccr1b' = 0
                  /\ middlePositionTimeout' = FALSE
                  /\ pc' = "cm_body"
             ELSE /\ pc' = "prog"
                  /\ UNCHANGED <<newMode, timer>>
    /\ UNCHANGED <<switches, clicks, mode, block, position, blinkRate, lastDirection,
                   tumblerVars, thresholds, relays, selector, history>>

\* changeMode entering PROGRAM without the walker reset
ChangeModeBodyNoReset ==
    /\ pc = "cm_body"
    /\ IF newMode = MODE_RUN
         THEN /\ block' = FALSE
              /\ pc' = "cm_mode"
              /\ UNCHANGED <<position, mode, newMode>>
         ELSE /\ mode' = newMode
              /\ newMode' = 0
              /\ pc' = "prog"
              /\ UNCHANGED <<position, block>>
    /\ UNCHANGED <<switches, clicks, blinkRate, lastDirection, tumblerVars, timer,
                   thresholds, relays, selector, history>>

\* lines 262-273 (and 274 when the branch writes nothing)
ChangeModeBody ==
    /\ pc = "cm_body"
    /\ IF newMode = MODE_RUN
         THEN /\ block' = FALSE
              /\ pc' = "cm_mode"
              /\ UNCHANGED <<position, mode, newMode>>
         ELSE IF newMode = MODE_PROGRAM /\ nextPosition = POS_TOP
         THEN /\ currPosition' = POS_BOT
              /\ pc' = "cm_next"
              /\ UNCHANGED <<nextPosition, block, mode, newMode>>
         ELSE /\ mode' = newMode
              /\ newMode' = 0
              /\ pc' = "prog"
              /\ UNCHANGED <<position, block>>
    /\ UNCHANGED <<switches, clicks, blinkRate, lastDirection, tumblerVars, timer,
                   thresholds, relays, selector, history>>

\* line 271
ChangeModeNext ==
    /\ pc = "cm_next"
    /\ nextPosition' = POS_MID
    /\ pc' = "cm_mode"
    /\ UNCHANGED <<newMode, switches, clicks, mode, block, currPosition, blinkRate,
                   lastDirection, tumblerVars, timer, thresholds, relays,
                   selector, history>>

\* line 274
ChangeModeCommit ==
    /\ pc = "cm_mode"
    /\ mode' = newMode
    /\ newMode' = 0
    /\ pc' = "prog"
    /\ UNCHANGED <<switches, clicks, block, position, blinkRate, lastDirection,
                   tumblerVars, timer, thresholds, relays, selector, history>>

(* ---------------------------- button handlers -------------------------- *)
\* the teach-in commit with the TOP threshold kept in RAM only
OnProgramButtonPressedTopUnsaved ==
    /\ currPosition' = nextPosition
    /\ nextPosition' = GetNextPosition(nextPosition)
    /\ IF nextPosition = POS_BOT
         THEN /\ bottomThreshold' = 0
              /\ clicks' = 0
              /\ teach' = IF teach = 3 THEN 3 ELSE 1
              /\ UNCHANGED <<middleThreshold, topThreshold, eeprom, block>>
         ELSE IF nextPosition = POS_MID
         THEN /\ middleThreshold' = Max(clicks, bottomThreshold)
              /\ eeprom' = [eeprom EXCEPT ![1] = Max(clicks, bottomThreshold)]
              /\ teach' = IF teach = 1 THEN 2 ELSE teach
              /\ UNCHANGED <<bottomThreshold, topThreshold, clicks, block>>
         ELSE /\ topThreshold' = Max(clicks, middleThreshold)
              /\ block' = TRUE
              /\ teach' = IF teach = 2 THEN 3 ELSE teach
              /\ UNCHANGED <<bottomThreshold, middleThreshold, clicks, eeprom>>

\* onProgramButtonPressed: the ATOMIC_BLOCK of lines 238-254 (mode is PROGRAM)
OnProgramButtonPressed ==
    /\ currPosition' = nextPosition
    /\ nextPosition' = GetNextPosition(nextPosition)
    /\ IF nextPosition = POS_BOT
         THEN /\ bottomThreshold' = 0
              /\ clicks' = 0
              /\ teach' = IF teach = 3 THEN 3 ELSE 1
              /\ UNCHANGED <<middleThreshold, topThreshold, eeprom, block>>
         ELSE IF nextPosition = POS_MID
         THEN /\ middleThreshold' = Max(clicks, bottomThreshold)
              /\ eeprom' = [eeprom EXCEPT ![1] = Max(clicks, bottomThreshold)]
              /\ teach' = IF teach = 1 THEN 2 ELSE teach
              /\ UNCHANGED <<bottomThreshold, topThreshold, clicks, block>>
         ELSE /\ topThreshold' = Max(clicks, middleThreshold)
              /\ eeprom' = [eeprom EXCEPT ![2] = Max(clicks, middleThreshold)]
              /\ block' = TRUE
              /\ teach' = IF teach = 2 THEN 3 ELSE teach
              /\ UNCHANGED <<bottomThreshold, middleThreshold, clicks>>

\* lines 377-379: serviceButton(&programButton, onProgramButtonPressed, 0)
ServiceProgram ==
    /\ pc = "prog"
    /\ pc' = "block_check"
    /\ IF mode = MODE_PROGRAM
         THEN /\ programButton' = Serviced(programButton)
              /\ IF ButtonEvent(programButton) = "press"
                   THEN OnProgramButtonPressed
                   ELSE UNCHANGED <<position, thresholds, clicks, block, teach>>
         ELSE UNCHANGED <<programButton, position, thresholds, clicks, block, teach>>
    /\ UNCHANGED <<newMode, progModeTumbler, upButton, downButton, mode, blinkRate,
                   lastDirection, tumblerVars, timer, relays, selector, selFrom>>

\* line 381
BlockCheck ==
    /\ pc = "block_check"
    /\ pc' = IF ~block THEN "service_up" ELSE "force_off"
    /\ UNCHANGED <<newMode, switches, clicks, mode, block, position, blinkRate,
                   lastDirection, tumblerVars, timer, thresholds, relays,
                   selector, history>>

\* line 382: serviceButton(&upButton, onUpButtonPressed, onUpButtonReleased)
ServiceUp ==
    /\ pc = "service_up"
    /\ pc' = "service_down"
    /\ upButton' = Serviced(upButton)
    /\ IF ButtonEvent(upButton) = "press"
         THEN IF CanGoUp
                THEN /\ lastDirection' = DIRECTION_UP
                     /\ upSwitch' = TRUE
                     /\ blinkRate' = BLINK_FAST
                ELSE UNCHANGED <<lastDirection, upSwitch, blinkRate>>
         ELSE IF ButtonEvent(upButton) = "release"
         THEN /\ upSwitch' = FALSE
              /\ blinkRate' = BLINK_SLOW
              /\ UNCHANGED lastDirection
         ELSE UNCHANGED <<lastDirection, upSwitch, blinkRate>>
    /\ UNCHANGED <<newMode, progModeTumbler, programButton, downButton, clicks, mode,
                   block, position, tumblerVars, timer, thresholds, downSwitch,
                   selector, history>>

\* line 383: serviceButton(&downButton, onDownButtonPressed, onDownButtonReleased)
ServiceDown ==
    /\ pc = "service_down"
    /\ pc' = "mode_branch"
    /\ downButton' = Serviced(downButton)
    /\ IF ButtonEvent(downButton) = "press"
         THEN IF CanGoDown
                THEN /\ lastDirection' = DIRECTION_DOWN
                     /\ downSwitch' = TRUE
                     /\ blinkRate' = BLINK_FAST
                ELSE UNCHANGED <<lastDirection, downSwitch, blinkRate>>
         ELSE IF ButtonEvent(downButton) = "release"
         THEN /\ downSwitch' = FALSE
              /\ blinkRate' = BLINK_SLOW
              /\ UNCHANGED lastDirection
         ELSE UNCHANGED <<lastDirection, downSwitch, blinkRate>>
    /\ UNCHANGED <<newMode, progModeTumbler, programButton, upButton, clicks, mode,
                   block, position, tumblerVars, timer, thresholds, upSwitch,
                   selector, history>>

(* --------------------------- RUN / PROGRAM branch ---------------------- *)
\* lines 385, 386, 397, 410: which branch of the unblocked part is taken
ModeBranch ==
    /\ pc = "mode_branch"
    /\ pc' = IF mode = MODE_RUN
               THEN IF upButton.pressed THEN "autostop_up"
                    ELSE IF downButton.pressed THEN "autostop_down"
                    ELSE "settle_check"
               ELSE IF mode = MODE_PROGRAM THEN "program_safety"
               ELSE "tumbler_check"
    /\ UNCHANGED <<newMode, switches, clicks, mode, block, position, blinkRate,
                   lastDirection, tumblerVars, timer, thresholds, relays,
                   selector, history>>

\* the autostop condition of line 390
UpThresholdReached ==
    \/ (nextPosition = POS_MID /\ clicks >= middleThreshold)
    \/ (nextPosition = POS_TOP /\ clicks >= topThreshold)

\* the autostop condition of line 400
DownThresholdReached == nextPosition = POS_BOT /\ clicks <= bottomThreshold

\* the stop with the UP relay left closed
StopUpKeepsRelay ==
    /\ block' = TRUE
    /\ tccr1b' = CS12
    /\ blinkRate' = BLINK_SLOW
    /\ upSwitch' = upSwitch
    /\ currPosition' = nextPosition
    /\ nextPosition' = GetNextPosition(nextPosition)

\* lines 391-394: startBlockTimeout (on a stopped timer), slow blink, open the UP
\* relay, setUpNextPosition
StopUp ==
    /\ block' = TRUE
    /\ tccr1b' = CS12
    /\ blinkRate' = BLINK_SLOW
    /\ upSwitch' = FALSE
    /\ currPosition' = nextPosition
    /\ nextPosition' = GetNextPosition(nextPosition)

\* lines 401-404: the same for the DOWN relay
StopDown ==
    /\ block' = TRUE
    /\ tccr1b' = CS12
    /\ blinkRate' = BLINK_SLOW
    /\ downSwitch' = FALSE
    /\ currPosition' = nextPosition
    /\ nextPosition' = GetNextPosition(nextPosition)

\* lines 387-396: the ATOMIC_BLOCK of the UP branch
AutostopUp ==
    /\ pc = "autostop_up"
    /\ pc' = "tumbler_check"
    /\ middlePositionTimeout' = FALSE
    /\ IF UpThresholdReached
         THEN StopUp
         ELSE /\ tccr1b' = 0
              /\ UNCHANGED <<block, blinkRate, upSwitch, position>>
    /\ UNCHANGED <<newMode, switches, clicks, mode, lastDirection, tumblerVars,
                   thresholds, downSwitch, selector, history>>

\* lines 398-406: the ATOMIC_BLOCK of the DOWN branch
AutostopDown ==
    /\ pc = "autostop_down"
    /\ pc' = "tumbler_check"
    /\ middlePositionTimeout' = FALSE
    /\ IF DownThresholdReached
         THEN StopDown
         ELSE /\ tccr1b' = 0
              /\ UNCHANGED <<block, blinkRate, downSwitch, position>>
    /\ UNCHANGED <<newMode, switches, clicks, mode, lastDirection, tumblerVars,
                   thresholds, upSwitch, selector, history>>

\* line 407
SettleCheck ==
    /\ pc = "settle_check"
    /\ pc' = IF nextPosition = POS_MID /\ clicks >= middleThreshold - SETTLE_WINDOW
               THEN "settle_arm" ELSE "tumbler_check"
    /\ UNCHANGED <<newMode, switches, clicks, mode, block, position, blinkRate,
                   lastDirection, tumblerVars, timer, thresholds, relays,
                   selector, history>>

\* line 408: startMiddlePositionTimeout
SettleArm ==
    /\ pc = "settle_arm"
    /\ pc' = "tumbler_check"
    /\ middlePositionTimeout' = TRUE
    /\ tccr1b' = CS12_CS10
    /\ UNCHANGED <<newMode, switches, clicks, mode, block, position, blinkRate,
                   lastDirection, tumblerVars, thresholds, relays, selector, history>>

\* the re-teach guard opening the UP relay only
ProgramSafetyKeepsDown ==
    /\ pc = "program_safety"
    /\ pc' = "tumbler_check"
    /\ IF IsGoingBelowPreviousThreshold
         THEN /\ upSwitch' = FALSE
              /\ UNCHANGED downSwitch
         ELSE UNCHANGED relays
    /\ UNCHANGED <<newMode, switches, clicks, mode, block, position, blinkRate,
                   lastDirection, tumblerVars, timer, thresholds, selector, history>>

\* lines 411-414
ProgramSafety ==
    /\ pc = "program_safety"
    /\ pc' = "tumbler_check"
    /\ IF IsGoingBelowPreviousThreshold
         THEN /\ upSwitch' = FALSE
              /\ downSwitch' = FALSE
         ELSE UNCHANGED relays
    /\ UNCHANGED <<newMode, switches, clicks, mode, block, position, blinkRate,
                   lastDirection, tumblerVars, timer, thresholds, selector, history>>

\* the blocked branch opening the UP relay only
ForceOffKeepsDown ==
    /\ pc = "force_off"
    /\ pc' = "tumbler_check"
    /\ upSwitch' = FALSE
    /\ UNCHANGED <<newMode, switches, clicks, mode, block, position, blinkRate,
                   lastDirection, tumblerVars, timer, thresholds, downSwitch,
                   selector, history>>

\* lines 417-418
ForceOff ==
    /\ pc = "force_off"
    /\ pc' = "tumbler_check"
    /\ upSwitch' = FALSE
    /\ downSwitch' = FALSE
    /\ UNCHANGED <<newMode, switches, clicks, mode, block, position, blinkRate,
                   lastDirection, tumblerVars, timer, thresholds, selector, history>>

\* one statement of the supervisor loop
Supervisor ==
    \/ TumblerCheck \/ TumblerSample \/ TumblerDecode
    \/ ChangeModeBody \/ ChangeModeNext \/ ChangeModeCommit
    \/ ServiceProgram \/ BlockCheck \/ ServiceUp \/ ServiceDown \/ ModeBranch
    \/ AutostopUp \/ AutostopDown \/ SettleCheck \/ SettleArm
    \/ ProgramSafety \/ ForceOff

(* ---------------------------- specifications --------------------------- *)
\* The unit is powered up with the selector in any position and the selector is then
\* left alone; buttons, Hall pulses and the timer are free.
Next == Supervisor \/ TickISR \/ PulseISR \/ TimerISR

Spec == Init /\ [][Next]_vars

\* The supervisor statements that can run while no button is ever pressed (the relays
\* stay open, block stays clear and the position stays at its boot value).
IdleSupervisor ==
    \/ TumblerCheck \/ TumblerSample \/ TumblerDecode
    \/ ChangeModeBody \/ ChangeModeCommit
    \/ ServiceProgram \/ BlockCheck \/ ServiceUp \/ ServiceDown \/ ModeBranch
    \/ SettleCheck \/ ProgramSafety

\* the two register readings a selector position gives once decoded
Decoded(sel) ==
    /\ stateOnPullUp = (IF TumblerPin(sel, 1) = 1 THEN ALL_ONES ELSE 0)
    /\ stateOnPullDown = (IF TumblerPin(sel, 0) = 1 THEN ALL_ONES ELSE 0)
    /\ mode = ModeOf(sel)

\* the operator moves the selector, once, from a steady (fully decoded) position
\* directly to another one
SelectorMove ==
    /\ selFrom = "none"
    /\ Decoded(selector)
    /\ selFrom' = selector
    /\ \E s \in Selectors \ {selector} : selector' = s
    /\ UNCHANGED <<pc, newMode, switches, clicks, mode, block, position, blinkRate,
                   lastDirection, tumblerVars, timer, thresholds, relays, teach>>

\* Mode sensing alone, tick by tick with the exact shift register: no button is
\* pressed, the selector is steady from power-up.
NextSteady == IdleSupervisor \/ TickIdle

\* the supervisor loop never blocks and the tick interrupt is periodic
SpecSteady ==
    /\ Init /\ [][NextSteady]_vars
    /\ WF_vars(IdleSupervisor) /\ WF_vars(TickIdle)

\* Mode sensing with one move of the selector.
NextTumbler == IdleSupervisor \/ TickIdle \/ SelectorMove

SpecTumbler == Init /\ [][NextTumbler]_vars

\* The supervisor statements that can run while the drive stands still (no Hall pulse)
\* and timer 1 never overflows: PROGRAM is then never entered with N = TOP.
StillSupervisor ==
    \/ TumblerCheck \/ TumblerSample \/ TumblerDecode
    \/ ChangeModeBody \/ ChangeModeCommit
    \/ ServiceProgram \/ BlockCheck \/ ServiceUp \/ ServiceDown \/ ModeBranch
    \/ AutostopUp \/ AutostopDown \/ SettleCheck \/ SettleArm
    \/ ProgramSafety \/ ForceOff

\* Buttons and one move of the selector, with the drive standing still.
NextTurn == StillSupervisor \/ TickISR \/ SelectorMove

SpecTurn == Init /\ [][NextTurn]_vars

\* Teach-in on a unit powered up with the selector at PROGRAM, its NVRAM taught
\* earlier or still erased.
SpecNvram == InitWith({"low"}, TaughtNvram \cup ErasedNvram) /\ [][Next]_vars

\* The debounce tick alone, sample by sample with the exact shift registers, under
\* every sequence of raw levels on the UP and DOWN pins.
SpecDebounce == Init /\ [][TickButtons]_vars

(* -------------------------------- claims ------------------------------- *)
\* C1: the UP relay and the DOWN relay are never both energised.
C1_RelaysExclusive == ~(upSwitch /\ downSwitch)

\* C2: in every state in which block is true, both relays are de-energised.
C2_BlockedRelaysOff == block => (~upSwitch /\ ~downSwitch)

\* C3: in RUN mode, a relay that is energised past its learned threshold (UP with
\* Clicks >= top, DOWN with Clicks <= bottom) is de-energised by the next unblocked
\* autostop evaluation made with its button held (the critical sections of lines
\* 387-396 and 398-406).
C3_StopsPastThreshold ==
    [][/\ (pc = "autostop_up" /\ pc' # pc /\ upSwitch /\ clicks >= topThreshold)
            => ~upSwitch'
       /\ (pc = "autostop_down" /\ pc' # pc /\ downSwitch /\ clicks <= bottomThreshold)
            => ~downSwitch']_vars

\* C4: once a full teach-in has committed BOT, MID and TOP, bottom <= middle <= top.
C4_ThresholdsOrdered ==
    teach = 3 => (bottomThreshold <= middleThreshold /\ middleThreshold <= topThreshold)

\* C5: at every instant nextPosition is the cyclic successor of currPosition.
C5_NextIsSuccessor ==
    \/ (currPosition = POS_BOT /\ nextPosition = POS_MID)
    \/ (currPosition = POS_MID /\ nextPosition = POS_TOP)
    \/ (currPosition = POS_TOP /\ nextPosition = POS_BOT)

\* C6: while block is true, currPosition and nextPosition do not change.
C6_BlockedPositionFrozen == [][(block /\ block') => position' = position]_vars

\* C7: block is never latched without the hardware timer running (so that its expiry
\* clears block).
C7_BlockHasTimer == block => tccr1b # 0

\* C8: after the selector has moved from steady position A directly to position B, the
\* mode takes no value other than mode(A) and mode(B).
C8_NoThirdMode ==
    selFrom # "none" => mode \in {ModeOf(selFrom), ModeOf(selector)}

\* C9: with the selector held steady from boot, the alternating pull-up / pull-down
\* decode eventually commits the selector's mode (floating: RUN, hard-low: PROGRAM,
\* hard-high: MANUAL), and once committed the mode stays at that value.
C9_DecodeCommits ==
    /\ <>(mode = ModeOf(selector))
    /\ [][mode = ModeOf(selector) => mode' = mode]_vars

\* C9 witness: the hard-low selector has been decoded as PROGRAM from both readings
C9_Witness ==
    /\ selector = "low" /\ mode = MODE_PROGRAM
    /\ stateOnPullUp = 0 /\ stateOnPullDown = 0 /\ pc = "prog"

\* C10: the RUN-mode autostop step is one critical section: when the threshold test of
\* the section succeeds, the same step cancels the settle timer, latches block with the
\* block timer running, restores slow blink, opens the held direction's relay and
\* advances C <- N, N <- succ(C), all on one value of Clicks.
C10_AutostopAtomic ==
    [][/\ (pc = "autostop_up" /\ pc' # pc /\ UpThresholdReached) =>
            /\ ~middlePositionTimeout' /\ block' /\ tccr1b' # 0
            /\ blinkRate' = BLINK_SLOW /\ ~upSwitch'
            /\ currPosition' = nextPosition
            /\ <<currPosition', nextPosition'>> \in
                  {<<POS_BOT, POS_MID>>, <<POS_MID, POS_TOP>>, <<POS_TOP, POS_BOT>>}
            /\ clicks' = clicks
       /\ (pc = "autostop_down" /\ pc' # pc /\ DownThresholdReached) =>
            /\ ~middlePositionTimeout' /\ block' /\ tccr1b' # 0
            /\ blinkRate' = BLINK_SLOW /\ ~downSwitch'
            /\ currPosition' = nextPosition
            /\ <<currPosition', nextPosition'>> \in
                  {<<POS_BOT, POS_MID>>, <<POS_MID, POS_TOP>>, <<POS_TOP, POS_BOT>>}
            /\ clicks' = clicks]_vars

\* C10 witness: an UP autostop has just stopped the carriage at MID
C10_Witness ==
    /\ mode = MODE_RUN /\ pc = "tumbler_check" /\ block /\ tccr1b = CS12
    /\ currPosition = POS_MID /\ nextPosition = POS_TOP
    /\ upButton.pressed /\ upButton.lastState /\ ~upSwitch
    /\ clicks >= middleThreshold

\* C11: in PROGRAM mode, every supervisor iteration that ends with DOWN stable-pressed
\* and (N = MID and Clicks <= bottom) or (N = TOP and Clicks <= middle) ends with both
\* relays open, on the unblocked path (lines 410-415) and on the blocked one (416-419).
C11_ReteachGuard ==
    [][(/\ pc \in {"program_safety", "force_off"} /\ pc' = "tumbler_check"
        /\ mode = MODE_PROGRAM /\ IsGoingBelowPreviousThreshold)
          => (~upSwitch' /\ ~downSwitch')]_vars

\* C11 witness: a DOWN press was dispatched (the DOWN relay closed and the direction
\* set) and the same iteration ended with the relay forced open below the learned stop
C11_Witness ==
    /\ pc = "tumbler_check" /\ mode = MODE_PROGRAM /\ ~block
    /\ downButton.pressed /\ downButton.lastState /\ lastDirection = DIRECTION_DOWN
    /\ nextPosition = POS_TOP /\ clicks <= middleThreshold
    /\ ~downSwitch /\ ~upSwitch


\* C12: a PROGRAM press serviced in PROGRAM mode advances the walker (C <- N,
\* N <- succ(C)) and commits exactly the threshold of the target N: BOT sets bottom = 0
\* and Clicks = 0; MID sets middle = max(Clicks, bottom) and the NVRAM word at offset 0;
\* TOP sets top = max(Clicks, middle), the NVRAM word at offset 4, and latches block.
\* The other thresholds are unchanged, and line 377-379 changes nothing in another mode
\* or without a press event.
C12_TeachCommit ==
    [][(pc = "prog" /\ pc' # pc) =>
         IF mode = MODE_PROGRAM /\ programButton.pressed /\ ~programButton.lastState
           THEN /\ currPosition' = nextPosition
                /\ <<currPosition', nextPosition'>> \in
                      {<<POS_BOT, POS_MID>>, <<POS_MID, POS_TOP>>, <<POS_TOP, POS_BOT>>}
                /\ nextPosition = POS_BOT =>
                      /\ bottomThreshold' = 0 /\ clicks' = 0
                      /\ UNCHANGED <<middleThreshold, topThreshold, eeprom, block>>
                /\ nextPosition = POS_MID =>
                      /\ middleThreshold' >= clicks /\ middleThreshold' >= bottomThreshold
                      /\ middleThreshold' \in {clicks, bottomThreshold}
                      /\ eeprom' = <<middleThreshold', eeprom[2]>>
                      /\ UNCHANGED <<bottomThreshold, topThreshold, clicks, block>>
                /\ nextPosition = POS_TOP =>
                      /\ topThreshold' >= clicks /\ topThreshold' >= middleThreshold
                      /\ topThreshold' \in {clicks, middleThreshold}
                      /\ eeprom' = <<eeprom[1], topThreshold'>>
                      /\ block'
                      /\ UNCHANGED <<bottomThreshold, middleThreshold, clicks>>
           ELSE UNCHANGED <<position, thresholds, clicks, block, mode, relays>>]_vars

\* C12 witness: a MID commit made below the bottom stop has just been clamped to bottom
C12_Witness ==
    /\ pc = "block_check" /\ mode = MODE_PROGRAM
    /\ programButton.pressed /\ programButton.lastState
    /\ currPosition = POS_MID /\ nextPosition = POS_TOP
    /\ clicks < bottomThreshold /\ middleThreshold = bottomThreshold
    /\ eeprom[1] = middleThreshold


\* C13: after boot, every change of Clicks is +1 by a pulse while the last commanded
\* direction is UP, -1 by a pulse while it is DOWN, or the reset to 0 of the BOT
\* teach-in commit; nothing else (a pulse with no direction, the other supervisor
\* statements, the tick and the timer handlers) changes Clicks.
C13_ClicksFrame ==
    [][clicks' # clicks =>
         \/ /\ pc' = pc /\ lastDirection = DIRECTION_UP /\ clicks' = clicks + 1
         \/ /\ pc' = pc /\ lastDirection = DIRECTION_DOWN /\ clicks' = clicks - 1
         \/ /\ pc = "prog" /\ pc' = "block_check" /\ mode = MODE_PROGRAM
            /\ nextPosition = POS_BOT /\ currPosition' = POS_BOT
            /\ programButton.pressed /\ ~programButton.lastState
            /\ clicks' = 0]_vars

\* C13 witness: DOWN pulses have taken Clicks below the zero of the BOT commit
C13_Witness ==
    /\ teach >= 1 /\ bottomThreshold = 0 /\ clicks < 0 /\ lastDirection = DIRECTION_DOWN


\* C14: the stable pressed flags of the UP and the DOWN button are never both true,
\* whatever the raw levels on the two pins (both held low included) and however many
\* ticks have run.
C14_ButtonsExclusive == ~(upButton.pressed /\ downButton.pressed)

\* C14 witness: with both pins low UP became stable-pressed first and DOWN's register
\* stopped one sample short of pressed
C14_Witness ==
    /\ upButton.pressed /\ upButton.pinBuffer = 0
    /\ ~downButton.pressed /\ downButton.pinBuffer = 128


\* C15: servicing an UP (DOWN) press event energises the UP (DOWN) relay, sets the last
\* commanded direction to UP (DOWN) and selects fast blink exactly when mode is PROGRAM
\* or MANUAL, or mode is RUN and C is BOT or MID (for DOWN: MID or TOP); otherwise the
\* relays, the direction and the blink rate are unchanged.  The direction changes in no
\* other step and never returns to 0.
C15_PressHandlers ==
    [][/\ (/\ pc = "service_up" /\ pc' # pc
           /\ upButton.pressed /\ ~upButton.lastState) =>
             IF \/ mode \in {MODE_PROGRAM, MODE_MANUAL}
                \/ (mode = MODE_RUN /\ currPosition \in {POS_BOT, POS_MID})
               THEN /\ upSwitch' /\ lastDirection' = DIRECTION_UP
                    /\ blinkRate' = BLINK_FAST /\ UNCHANGED downSwitch
               ELSE UNCHANGED <<relays, lastDirection, blinkRate>>
       /\ (/\ pc = "service_down" /\ pc' # pc
           /\ downButton.pressed /\ ~downButton.lastState) =>
             IF \/ mode \in {MODE_PROGRAM, MODE_MANUAL}
                \/ (mode = MODE_RUN /\ currPosition \in {POS_MID, POS_TOP})
               THEN /\ downSwitch' /\ lastDirection' = DIRECTION_DOWN
                    /\ blinkRate' = BLINK_FAST /\ UNCHANGED upSwitch
               ELSE UNCHANGED <<relays, lastDirection, blinkRate>>
       /\ lastDirection' # lastDirection =>
             \/ (pc = "service_up" /\ upButton.pressed /\ ~upButton.lastState
                 /\ lastDirection' = DIRECTION_UP)
             \/ (pc = "service_down" /\ downButton.pressed /\ ~downButton.lastState
                 /\ lastDirection' = DIRECTION_DOWN)]_vars

\* C15 witness: in RUN mode at C = TOP an UP press has just been serviced and refused,
\* after an earlier DOWN command
C15_Witness ==
    /\ pc = "service_down" /\ mode = MODE_RUN /\ currPosition = POS_TOP
    /\ upButton.pressed /\ upButton.lastState
    /\ ~upSwitch /\ lastDirection = DIRECTION_DOWN /\ blinkRate = BLINK_SLOW


\* C16: whenever the settle flag (middlePositionTimeout) is armed, N = MID and the mode
\* is RUN, so that every advance made by the settle timer goes from C = BOT to C = MID.
C16_SettleOnlyToMid ==
    middlePositionTimeout => (nextPosition = POS_MID /\ mode = MODE_RUN)


\* C17: in RUN mode the UP relay is energised only at C = BOT or C = MID and the DOWN
\* relay only at C = MID or C = TOP.
C17_RunRelayPositions ==
    mode = MODE_RUN =>
        /\ upSwitch => currPosition \in {POS_BOT, POS_MID}
        /\ downSwitch => currPosition \in {POS_MID, POS_TOP}


\* C18: dead-man behaviour.  A relay is energised only while its button's last serviced
\* state is pressed, and it closes only when its button is serviced pressed.  In every
\* supervisor iteration a button found stable-released at its service statement has its
\* relay open after it, and an iteration that finds block latched opens both relays; so
\* a relay is open by the end of the first complete iteration after its button became
\* stable-released.
C18_DeadMan ==
    /\ []((upSwitch => upButton.lastState) /\ (downSwitch => downButton.lastState))
    /\ [][/\ (pc = "service_up" /\ pc' # pc /\ ~upButton.pressed) => ~upSwitch'
          /\ (pc = "service_down" /\ pc' # pc /\ ~downButton.pressed) => ~downSwitch'
          /\ (pc = "force_off" /\ pc' # pc) => (~upSwitch' /\ ~downSwitch')
          /\ (pc = "block_check" /\ pc' # pc) =>
                pc' = (IF block THEN "force_off" ELSE "service_up")
          /\ (upSwitch' /\ ~upSwitch) => (pc = "service_up" /\ upButton.pressed)
          /\ (downSwitch' /\ ~downSwitch) => (pc = "service_down" /\ downButton.pressed)
         ]_vars

\* C18 witness: DOWN was released while block was latched by an UP stop; its release was
\* never serviced and the blocked iteration has opened its relay
C18_Witness ==
    /\ mode = MODE_RUN /\ block /\ pc = "tumbler_check"
    /\ downButton.lastState /\ ~downButton.pressed /\ ~downSwitch
    /\ upButton.pressed /\ upButton.lastState /\ ~upSwitch


\* C19: after boot the NVRAM word at offset 0 reads back as middleThreshold and the
\* word at offset 4 as topThreshold, so a reboot restores exactly the thresholds in
\* use; the words change only in the MID and TOP teach-in commits (there is no word for
\* bottomThreshold).
C19_NvramMirrors ==
    /\ [](eeprom[1] = middleThreshold /\ eeprom[2] = topThreshold)
    /\ [][eeprom' # eeprom =>
            /\ pc = "prog" /\ mode = MODE_PROGRAM
            /\ \/ (nextPosition = POS_MID /\ eeprom'[2] = eeprom[2])
               \/ (nextPosition = POS_TOP /\ eeprom'[1] = eeprom[1])]_vars

\* C19 witness: a full teach-in has just committed TOP after MID, and both words hold
\* the new thresholds
C19_Witness ==
    /\ teach = 3 /\ clicks > 0 /\ topThreshold = clicks /\ middleThreshold = 0
    /\ eeprom = <<0, clicks>> /\ currPosition = POS_TOP /\ pc = "block_check"


\* C20: right after every transition into PROGRAM mode the teach target N is not TOP;
\* within PROGRAM mode N becomes TOP only by a MID commit, and a TOP commit finds
\* C = MID.  Hence every TOP commit is preceded by a MID commit of the same PROGRAM
\* session.
C20_TopAfterMid ==
    [][/\ (mode # MODE_PROGRAM /\ mode' = MODE_PROGRAM) => nextPosition' # POS_TOP
       /\ (/\ mode = MODE_PROGRAM /\ mode' = MODE_PROGRAM
           /\ nextPosition # POS_TOP /\ nextPosition' = POS_TOP) =>
             /\ pc = "prog" /\ programButton.pressed /\ ~programButton.lastState
             /\ nextPosition = POS_MID /\ currPosition' = POS_MID
       /\ (/\ pc = "prog" /\ pc' # pc /\ mode = MODE_PROGRAM
           /\ programButton.pressed /\ ~programButton.lastState
           /\ nextPosition = POS_TOP) => currPosition = POS_MID]_vars

\* C20 witness: PROGRAM is being entered with N = TOP and changeMode has reset the
\* walker to C = BOT, N = MID before writing the mode
C20_Witness ==
    /\ pc = "cm_mode" /\ newMode = MODE_PROGRAM /\ mode = MODE_RUN
    /\ currPosition = POS_BOT /\ nextPosition = POS_MID

=============================================================================
